---- MODULE Spec2Model ----
(***************************************************************************)
(* A model of OnionScan's scan engine (src/main.py): proxy configuration,  *)
(* the Tor session singleton, the probes, the memoized directory lookup,   *)
(* scan_service and the sequential scan loop.                              *)
(*                                                                         *)
(* Python strings that the code inspects character by character (proxy     *)
(* host and port) are sequences of one-character strings; Python's None is *)
(* the value None below, which is no such sequence.                        *)
(***************************************************************************)
EXTENDS Integers, Sequences, FiniteSets, TLC

VARIABLES
    PROXY_HOST,     \* main.PROXY_HOST: None or a string
    PROXY_PORT,     \* main.PROXY_PORT: None or a string
    envHost,        \* os.environ.get("TOR_PROXY_HOST")
    envPort,        \* os.environ.get("TOR_PROXY_PORT")
    cfgResult,      \* the value returned by the last direct _get_proxy_config() call
    TOR_SESSION,    \* main._TOR_SESSION: NoSession or a session object
    sessionSeq,     \* how many requests.Session objects were ever constructed
    sessionLog,     \* observer: the get_tor_session() calls since the last reset
    conns,          \* observer: the outbound connections of the latest operation
    descCache,      \* the lru_cache(maxsize=1) slot of fetch_tor_descriptor
    dirLog,         \* observer: fetch_tor_descriptor() calls since the last cache_clear()
    urls,           \* __main__: the list of targets
    idx,            \* __main__: how many targets the scan loop has finished
    all_results,    \* __main__: target -> report
    pc,             \* __main__: "scan", "done", or "raised" (an exception ended the run)
    scanLog,        \* observer: each scan_service call of the loop, with its world
    cfOutcomes,     \* check_common_files called alone: what each path's request does
    cfResult,       \* check_common_files called alone: what it returned and requested
    tpc,            \* concurrent callers of fetch_tor_descriptor: where each one is
    tres            \* concurrent callers of fetch_tor_descriptor: what each one got

cfgVars == <<PROXY_HOST, PROXY_PORT, envHost, envPort, cfgResult>>
sessVars == <<TOR_SESSION, sessionSeq, sessionLog, conns>>
dirVars == <<descCache, dirLog>>
mainVars == <<urls, idx, all_results, pc, scanLog>>
cfVars == <<cfOutcomes, cfResult>>
thrVars == <<tpc, tres>>
vars == <<cfgVars, sessVars, dirVars, mainVars, cfVars, thrVars>>

----------------------------------------------------------------------------
(* Strings *)

None == <<"None">>

DigitChars == {"0", "1", "2", "3", "4", "5", "6", "7", "8", "9"}

DigitValue(c) ==
    CASE c = "0" -> 0 [] c = "1" -> 1 [] c = "2" -> 2 [] c = "3" -> 3
      [] c = "4" -> 4 [] c = "5" -> 5 [] c = "6" -> 6 [] c = "7" -> 7
      [] c = "8" -> 8 [] c = "9" -> 9

\* Python truthiness of an optional string: None and "" are falsy.
Truthy(x) == x # None /\ x # <<>>

\* x or y
PyOr(x, y) == IF Truthy(x) THEN x ELSE y

\* str.isdigit(): non-empty and every character a digit.
isdigit(s) == Len(s) > 0 /\ \A i \in 1..Len(s) : s[i] \in DigitChars

\* int(s) of a digit string.
RECURSIVE PyInt(_)
PyInt(s) ==
    IF Len(s) = 0 THEN 0
    ELSE 10 * PyInt(SubSeq(s, 1, Len(s) - 1)) + DigitValue(s[Len(s)])

\* All strings over alphabet A of length at most n.
RECURSIVE StringsUpTo(_, _)
StringsUpTo(A, n) ==
    IF n = 0 THEN {<<>>}
    ELSE LET shorter == StringsUpTo(A, n - 1)
         IN  shorter \cup {Append(s, c) : s \in shorter, c \in A}

----------------------------------------------------------------------------
(* _get_proxy_config *)

DefaultHost == <<"1", "2", "7", ".", "0", ".", "0", ".", "1">>
DefaultPort == <<"9", "0", "5", "0">>

\* A plausible slip: the environment consulted before the override.
GetProxyConfigEnvFirst ==
    LET host == PyOr(envHost, PROXY_HOST)
        port == PyOr(envPort, PROXY_PORT)
    IN  <<IF ~Truthy(host) THEN DefaultHost ELSE host,
          IF ~Truthy(port) \/ ~isdigit(port) THEN DefaultPort ELSE port>>

_get_proxy_config ==
    LET host == PyOr(PROXY_HOST, envHost)
        port == PyOr(PROXY_PORT, envPort)
    IN  <<IF ~Truthy(host) THEN DefaultHost ELSE host,
          IF ~Truthy(port) \/ ~isdigit(port) THEN DefaultPort ELSE port>>

----------------------------------------------------------------------------
(* get_tor_session and the connections made through the proxy *)

NoSession == [id |-> 0]

\* f"socks5h://{host}:{port}"
ProxyUrl(host, port) == [scheme |-> "socks5h", host |-> host, port |-> port]

ProxiesOf(cfg) == [http |-> ProxyUrl(cfg[1], cfg[2]), https |-> ProxyUrl(cfg[1], cfg[2])]

\* requests.Session() with proxies and headers updated (lines 47-53); seq
\* sessions exist already, so the new object is number seq + 1.
NewSession(seq) ==
    [id |-> seq + 1,
     proxies |-> ProxiesOf(_get_proxy_config),
     headers |-> [UserAgent |-> "Mozilla/5.0"]]

\* A plausible slip: no singleton, a fresh session on every call.
GetTorSessionNoCache(cur, seq) == NewSession(seq)

\* The session get_tor_session() returns, which is also _TOR_SESSION afterwards.
get_tor_session(cur, seq) == IF cur = NoSession THEN NewSession(seq) ELSE cur

EmptySessionLog == [called |-> FALSE, constructed |-> 0, returned |-> {}, first |-> None]

\* The session-related state at the start of an operation, threaded through
\* the calls the operation makes.
SS == [cur |-> TOR_SESSION, seq |-> sessionSeq, log |-> sessionLog, conns |-> {}]

CallGetTorSession(ss) ==
    LET s == get_tor_session(ss.cur, ss.seq)
        made == s.id > ss.seq
    IN  [cur |-> s,
         seq |-> IF made THEN ss.seq + 1 ELSE ss.seq,
         log |-> [called |-> TRUE,
                  constructed |-> ss.log.constructed + (IF made THEN 1 ELSE 0),
                  returned |-> ss.log.returned \cup {s.id},
                  first |-> IF ss.log.called THEN ss.log.first ELSE _get_proxy_config],
         conns |-> ss.conns]

\* session.get(url): requests connects through session.proxies[scheme].
HttpGet(ss, probe, scheme) ==
    LET via == IF scheme = "https" THEN ss.cur.proxies.https ELSE ss.cur.proxies.http
    IN  [ss EXCEPT !.conns = @ \cup {[probe |-> probe, host |-> via.host,
                                      port |-> PyInt(via.port), after |-> TRUE]}]

\* sock.set_proxy(socks.SOCKS5, proxy_host, int(proxy_port)) of the TCP probes.
TcpProxy(ss) == <<_get_proxy_config[1], PyInt(_get_proxy_config[2])>>

\* sock.connect(...) of extract_cert_info and scan_banner.
TcpConnect(ss, probe) ==
    [ss EXCEPT !.conns = @ \cup {[probe |-> probe, host |-> TcpProxy(ss)[1],
                                  port |-> TcpProxy(ss)[2],
                                  after |-> ss.cur # NoSession]}]

SetSS(ss) ==
    /\ TOR_SESSION' = ss.cur
    /\ sessionSeq' = ss.seq
    /\ sessionLog' = ss.log
    /\ conns' = ss.conns

----------------------------------------------------------------------------
(* URLs: urlparse gives scheme, netloc and path; a string with no "//" has  *)
(* neither scheme nor netloc, and its hostname is None.                    *)

Url(scheme, host, path) == [scheme |-> scheme, host |-> host, path |-> path]

\* urlparse(onion_url).hostname
hostname(url) == IF url.host = "" THEN None ELSE <<url.host>>

\* urljoin(base, ref): an absolute path replaces the base's path; the relative
\* reference "img.png" resolves to "/img.png" against every base path used here
\* ("", "/" and "/page").
urljoin(url, ref) == Url(url.scheme, url.host, IF ref = "img.png" THEN "/img.png" ELSE ref)

----------------------------------------------------------------------------
(* fetch_html_via_tor *)

\* Elements of errors and the second component of fetch_html_via_tor's result
\* are Python values of different types; each carries its type.
PyStr(s) == [type |-> "str", val |-> s]
PyDict(d) == [type |-> "dict", val |-> d]

\* outcome: what session.get does, [ok |-> TRUE, text, headers] or
\* [ok |-> FALSE, reason] for a requests.RequestException.
\* A URL without a host makes requests raise before it connects.
fetch_html_via_tor(ss, url, outcome) ==
    LET s1 == CallGetTorSession(ss)
        s2 == IF url.host = "" THEN s1 ELSE HttpGet(s1, "fetch_html_via_tor", url.scheme)
    IN  [ss |-> s2,
         html |-> IF outcome.ok THEN outcome.text ELSE None,
         headers |-> IF outcome.ok THEN PyDict(outcome.headers) ELSE PyStr(outcome.reason)]

----------------------------------------------------------------------------
(* check_common_files *)

Paths == <<"/robots.txt", "/.git/HEAD", "/.env", "/admin", "/config.php", "/server-status">>

Response(code) == [kind |-> "response", status |-> code]
RequestError == [kind |-> "error", status |-> 0]

\* A plausible slip: a request error ends the loop (break instead of continue).
RECURSIVE CheckPathsBreak(_, _, _, _)
CheckPathsBreak(url, outcomes, i, acc) ==
    IF i > Len(Paths) THEN acc
    ELSE LET o == outcomes[i]
             req == [acc EXCEPT !.requested = Append(@, urljoin(url, Paths[i]))]
         IN  IF o.kind = "error" THEN req
             ELSE IF o.status = 200
             THEN CheckPathsBreak(url, outcomes, i + 1,
                      [req EXCEPT !.findings =
                          Append(@, [path |-> Paths[i], status |-> o.status])])
             ELSE CheckPathsBreak(url, outcomes, i + 1, req)

\* The loop of lines 84-90 from path i on; acc holds the findings and the
\* URLs requested so far.
RECURSIVE CheckPaths(_, _, _, _)
CheckPaths(url, outcomes, i, acc) ==
    IF i > Len(Paths) THEN acc
    ELSE LET o == outcomes[i]
             req == [acc EXCEPT !.requested = Append(@, urljoin(url, Paths[i]))]
         IN  IF o.kind = "error" THEN CheckPaths(url, outcomes, i + 1, req)
             ELSE IF o.status = 200
             THEN CheckPaths(url, outcomes, i + 1,
                      [req EXCEPT !.findings =
                          Append(@, [path |-> Paths[i], status |-> o.status])])
             ELSE CheckPaths(url, outcomes, i + 1, req)

check_common_files(ss, url, outcomes) ==
    LET s1 == CallGetTorSession(ss)
        run == CheckPaths(url, outcomes, 1, [findings |-> <<>>, requested |-> <<>>])
    IN  [ss |-> HttpGet(s1, "check_common_files", url.scheme),
         findings |-> run.findings,
         requested |-> run.requested]

----------------------------------------------------------------------------
(* extract_cert_info, scan_banner, scan_protocols *)

\* A Python exception leaving a function.
Raised(exc) == [raised |-> TRUE, exc |-> exc]
Returned(v) == [raised |-> FALSE, value |-> v]

\* outcome "context_error": ssl.create_default_context() (line 97, outside the
\* try) raises ssl.SSLError; "cert": the handshake gives a certificate;
\* "error": connect or handshake raises OSError / SSLError / ProxyError.
extract_cert_info(ss, host, outcome) ==
    IF outcome.kind = "context_error"
    THEN [ss |-> ss, out |-> Raised("SSLError")]
    ELSE [ss |-> TcpConnect(ss, "extract_cert_info"),
          out |-> Returned(
              IF outcome.kind = "cert"
              THEN [subject |-> outcome.cert.subject, issuer |-> outcome.cert.issuer,
                    notBefore |-> outcome.cert.notBefore, notAfter |-> outcome.cert.notAfter]
              ELSE [error |-> outcome.message])]

Whitespace == {" ", "\n"}

\* bytes.decode(errors="ignore"): undecodable bytes are dropped.
Decode(data) == SelectSeq(data, LAMBDA c : c # "\\xff")

RECURSIVE LStrip(_)
LStrip(s) == IF Len(s) > 0 /\ Head(s) \in Whitespace THEN LStrip(Tail(s)) ELSE s

RECURSIVE RStrip(_)
RStrip(s) ==
    IF Len(s) > 0 /\ s[Len(s)] \in Whitespace THEN RStrip(SubSeq(s, 1, Len(s) - 1)) ELSE s

\* str.strip()
Strip(s) == RStrip(LStrip(s))

\* f"{label}_banner", f"{label}_info"
BannerKey(label) ==
    CASE label = "ssh" -> "ssh_banner" [] label = "ftp" -> "ftp_banner"
      [] label = "smtp" -> "smtp_banner" [] label = "xmpp" -> "xmpp_banner"
      [] label = "bitcoin" -> "bitcoin_banner" [] label = "irc" -> "irc_banner"
      [] label = "vnc" -> "vnc_banner" [] label = "mongodb" -> "mongodb_banner"

InfoKey(label) ==
    CASE label = "ssh" -> "ssh_info" [] label = "ftp" -> "ftp_info"
      [] label = "smtp" -> "smtp_info" [] label = "xmpp" -> "xmpp_info"
      [] label = "bitcoin" -> "bitcoin_info" [] label = "irc" -> "irc_info"
      [] label = "vnc" -> "vnc_info" [] label = "mongodb" -> "mongodb_info"

\* outcome: [kind |-> "data", data] (recv returned), or [kind |-> "oserror",
\* message] (connect or recv raised OSError).
scan_banner_result(label, outcome) ==
    IF outcome.kind = "data" THEN (BannerKey(label) :> Strip(Decode(outcome.data)))
    ELSE IF outcome.message = "Connection refused" THEN [status |-> "closed"]
    ELSE [error |-> outcome.message]

\* The ports dict of scan_protocols, in its insertion order.
Ports ==
    <<[label |-> "ssh", port |-> 22], [label |-> "ftp", port |-> 21],
      [label |-> "smtp", port |-> 25], [label |-> "xmpp", port |-> 5222],
      [label |-> "bitcoin", port |-> 8333], [label |-> "irc", port |-> 6667],
      [label |-> "vnc", port |-> 5900], [label |-> "mongodb", port |-> 27017]>>

Labels == {Ports[i].label : i \in 1..Len(Ports)}

\* outcomes: label -> what that port's connection does.
scan_protocols(ss, host, outcomes) ==
    [ss |-> TcpConnect(ss, "scan_banner"),
     out |-> [k \in {InfoKey(l) : l \in Labels} |->
                 LET l == CHOOSE l \in Labels : InfoKey(l) = k
                 IN  scan_banner_result(l, outcomes[l])]]

----------------------------------------------------------------------------
(* The extractors over headers and page text *)

Lower(k) ==
    CASE k = "Server" -> "server" [] k = "X-Powered-By" -> "x-powered-by"
      [] k = "Date" -> "date" [] OTHER -> k

Restrict(f, keys) == [k \in keys |-> f[k]]

extract_metadata(headers) ==
    Restrict(headers, {k \in DOMAIN headers : Lower(k) \in {"server", "x-powered-by"}})

\* Page text is a sequence of pieces; what the stand-in HTML parser and the
\* regular expressions find in a piece is tabulated here.
Href(piece) ==
    CASE piece = "<a href='http://abc.onion/page'>" -> "http://abc.onion/page"
      [] piece = "<a href='https://example.com'>" -> "https://example.com"
      [] OTHER -> ""

IsOnion(href) == href = "http://abc.onion/page"

Src(piece) == CASE piece = "<img src='img.png'>" -> "img.png" [] OTHER -> ""

IsImg(piece) == piece \in {"<img src='img.png'>", "<img>"}

Emails(piece) == IF piece = "mail admin@abc.onion" THEN <<"admin@abc.onion">> ELSE <<>>

RECURSIVE Dedupe(_)
Dedupe(s) ==
    IF Len(s) = 0 THEN <<>>
    ELSE LET rest == Dedupe(SubSeq(s, 1, Len(s) - 1))
         IN  IF \E i \in 1..Len(rest) : rest[i] = s[Len(s)] THEN rest
             ELSE Append(rest, s[Len(s)])

RECURSIVE Concat(_)
Concat(ss) == IF Len(ss) = 0 THEN <<>> ELSE Head(ss) \o Concat(Tail(ss))

\* list({href ...}): the set's elements, here in document order.
extract_onion_links(html) ==
    Dedupe(SelectSeq([i \in 1..Len(html) |-> Href(html[i])], IsOnion))

\* None of the pieces holds a Bitcoin address or a PGP block.
extract_bitcoin_addresses(html) == <<>>
extract_pgp_keys(html) == <<>>

extract_emails_and_ids(html) ==
    [emails |-> Concat([i \in 1..Len(html) |-> Emails(html[i])]),
     google_analytics_ids |-> <<>>]

\* hashlib.sha1(html.encode()).hexdigest(): one digest per text, never "".
html_fingerprint(html) == <<"sha1">> \o html

----------------------------------------------------------------------------
(* extract_exif_data_from_images *)

HexOf(c) == CASE c = "a" -> "61" [] c = "b" -> "62" [] c = "c" -> "63"

\* val.hex() if isinstance(val, bytes) else val
Cleaned(val) ==
    IF val.type = "bytes" THEN [type |-> "str", v |-> [i \in 1..Len(val.v) |-> HexOf(val.v[i])]]
    ELSE val

\* outcomes: image number -> "request_error" | "decode_error" | an exif map
\* (possibly empty).
RECURSIVE ExifLoop(_, _, _, _)
ExifLoop(base, imgs, outcomes, i) ==
    IF i > Len(imgs) THEN <<>>
    ELSE LET rest == ExifLoop(base, imgs, outcomes, i + 1)
             o == outcomes[i]
         IN  IF Src(imgs[i]) = "" THEN rest
             ELSE IF o.kind \in {"request_error", "decode_error"} THEN rest
             ELSE IF DOMAIN o.exif = {} THEN rest
             ELSE <<[src |-> urljoin(base, Src(imgs[i])),
                     exif |-> [t \in DOMAIN o.exif |-> Cleaned(o.exif[t])]]>> \o rest

extract_exif_data_from_images(ss, html, base, outcomes) ==
    LET s1 == CallGetTorSession(ss)
        imgs == SelectSeq(html, IsImg)
        fetched == \E i \in 1..Len(imgs) : Src(imgs[i]) # ""
    IN  [ss |-> IF fetched THEN HttpGet(s1, "extract_exif_data_from_images", base.scheme)
                ELSE s1,
         out |-> ExifLoop(base, imgs, outcomes, 1)]

----------------------------------------------------------------------------
(* fetch_tor_descriptor under functools.lru_cache(maxsize=1) *)

NoEntry == [hit |-> FALSE]
Entry(v) == [hit |-> TRUE, value |-> v]

CaughtByFetchTorDescriptor == {"DescriptorUnavailable", "IndexError"}

\* The decorated function's body (lines 233-245). outcome: what
\* list(stem.descriptor.remote.get_server_descriptors()) does:
\* [kind |-> "list", descs] or [kind |-> "raise", exc, message].
fetch_tor_descriptor_body(outcome) ==
    IF outcome.kind = "raise"
    THEN IF outcome.exc \in CaughtByFetchTorDescriptor
         THEN Returned([error |-> outcome.message])
         ELSE Raised(outcome.exc)
    ELSE IF Len(outcome.descs) = 0
    THEN Returned([error |-> "no descriptors"])
    ELSE LET desc == outcome.descs[1]
         IN  Returned([nickname |-> desc.nickname,
                       published |-> [type |-> "str", v |-> desc.published.v],
                       platform |-> desc.platform,
                       contact |-> desc.contact])

\* What lru_cache keeps after the body ended with out: a returned value is
\* stored unless another caller stored one meanwhile, an exception is not.
Store(cache, out) == IF out.raised \/ cache.hit THEN cache ELSE Entry(out.value)

EmptyDirLog == [calls |-> 0, queries |-> 0, results |-> <<>>]

\* The directory-lookup state, threaded like SS.
DS == [cache |-> descCache, log |-> dirLog]

\* One call of fetch_tor_descriptor(): a hit returns the kept value without
\* running the body.
CallFetchTorDescriptor(ds, outcome) ==
    LET hit == ds.cache.hit
        out == IF hit THEN Returned(ds.cache.value) ELSE fetch_tor_descriptor_body(outcome)
    IN  [ds |-> [cache |-> IF hit THEN ds.cache ELSE Store(ds.cache, out),
                 log |-> [calls |-> ds.log.calls + 1,
                          queries |-> ds.log.queries + (IF hit THEN 0 ELSE 1),
                          results |-> Append(ds.log.results, out)]],
         out |-> out]

SetDS(ds) ==
    /\ descCache' = ds.cache
    /\ dirLog' = ds.log

----------------------------------------------------------------------------
(* scan_service *)

\* Python's {}, [] and "" are all the empty function <<>> here.
DefaultResult(url) ==
    [url |-> url, errors |-> <<>>, metadata |-> <<>>, linked_onions |-> <<>>,
     cert_info |-> <<>>, exposed_files |-> <<>>, bitcoin_addresses |-> <<>>,
     pgp_keys |-> <<>>, emails_and_ids |-> <<>>, exif_data |-> <<>>,
     html_sha1 |-> <<>>, tor_descriptor |-> <<>>]

\* dict.update
Update(d, e) == [k \in DOMAIN d \cup DOMAIN e |-> IF k \in DOMAIN e THEN e[k] ELSE d[k]]

\* not html
NotHtml(html) == html = None \/ html = <<>>

\* A plausible slip: the failure branch returns without recording the reason.
FetchFailedDropReason(result, f) == result

\* Lines 267-269: the report returned when "not html".
FetchFailed(result, f) == [result EXCEPT !.errors = Append(@, f.headers)]

\* Lines 281-287, with the probes' results: cert is extract_cert_info's
\* outcome and prot is scan_protocols' (evaluated only when cert returned).
\* OSError and ssl.SSLError are caught.
HostProbes(result, host, cert, prot) ==
    IF ~Truthy(host) THEN result
    ELSE IF cert.raised
    THEN [result EXCEPT !.errors = Append(@, PyStr(<<"Protocol scan error: ", cert.exc>>))]
    ELSE Update([result EXCEPT !.cert_info = cert.value], prot)

\* Lines 271-279, with the probes' results.
PageProbes(result, html, headers, files, exif, desc) ==
    [result EXCEPT !.metadata = extract_metadata(headers),
                   !.linked_onions = extract_onion_links(html),
                   !.exposed_files = files,
                   !.bitcoin_addresses = extract_bitcoin_addresses(html),
                   !.pgp_keys = extract_pgp_keys(html),
                   !.emails_and_ids = extract_emails_and_ids(html),
                   !.exif_data = exif,
                   !.html_sha1 = html_fingerprint(html),
                   !.tor_descriptor = desc]

\* A plausible slip: the "not html" test placed after the common-path check,
\* so the paths are requested even when the page fetch failed.
ShortCircuitAfterPaths(f, ds, url, w) ==
    LET c == check_common_files(f.ss, url, w.paths)
    IN  [ss |-> c.ss, ds |-> ds, raised |-> FALSE,
         result |-> FetchFailed(DefaultResult(url), f),
         probes |-> <<"fetch_html_via_tor", "check_common_files">>,
         outputs |-> <<>>]

\* Lines 267-269: what scan_service has done when it returns on "not html":
\* f is the page fetch's value; nothing else was called, so the session state
\* is the fetch's and the directory state is untouched.
ShortCircuit(f, ds, url, w) ==
    [ss |-> f.ss, ds |-> ds, raised |-> FALSE,
     result |-> FetchFailed(DefaultResult(url), f),
     probes |-> <<"fetch_html_via_tor">>, outputs |-> <<>>]

\* scan_service(onion_url) in the world w: w.fetch, w.paths, w.images, w.dir,
\* w.cert and w.banners say what each network operation does. The value has
\* the session and directory state afterwards, whether an exception left the
\* function, the report, which probes were invoked, in order, and what the
\* network probes returned.
scan_service(ss, ds, url, w) ==
    LET f == fetch_html_via_tor(ss, url, w.fetch)
    IN  IF NotHtml(f.html)
        THEN ShortCircuit(f, ds, url, w)
        ELSE
        LET c == check_common_files(f.ss, url, w.paths)
            e == extract_exif_data_from_images(c.ss, f.html, url, w.images)
            d == CallFetchTorDescriptor(ds, w.dir)
            host == hostname(url)
            cert == extract_cert_info(e.ss, host, w.cert)
            prot == scan_protocols(cert.ss, host, w.banners)
            page == <<"fetch_html_via_tor", "check_common_files",
                      "extract_exif_data_from_images", "fetch_tor_descriptor">>
        IN  IF d.out.raised
            THEN [ss |-> e.ss, ds |-> d.ds, raised |-> TRUE,
                  result |-> DefaultResult(url), probes |-> page,
                  outputs |-> [check_common_files |-> c.findings]]
            ELSE [ss |-> IF ~Truthy(host) THEN e.ss
                         ELSE IF cert.out.raised THEN cert.ss ELSE prot.ss,
                  ds |-> d.ds, raised |-> FALSE,
                  result |-> HostProbes(
                      PageProbes(DefaultResult(url), f.html, f.headers.val,
                                 c.findings, e.out, d.out.value),
                      host, cert.out, prot.out),
                  probes |-> page \o (IF ~Truthy(host) THEN <<>>
                                      ELSE IF cert.out.raised THEN <<"extract_cert_info">>
                                      ELSE <<"extract_cert_info", "scan_protocols">>),
                  outputs |-> Update([check_common_files |-> c.findings,
                                      fetch_tor_descriptor |-> d.out.value],
                                     IF ~Truthy(host) \/ cert.out.raised THEN <<>>
                                     ELSE [extract_cert_info |-> cert.out.value,
                                           scan_protocols |-> prot.out])]

----------------------------------------------------------------------------
(* The worlds the operations run in *)

MaxTargets == 2      \* the longest target list
MaxSessions == 2     \* how many sessions are ever constructed
MaxCalls == 4        \* fetch_tor_descriptor() calls between two cache_clear()
MaxStrLen == 2       \* the longest proxy host or port string tried
NumCallers == 2      \* concurrent callers of fetch_tor_descriptor()

T1 == Url("http", "abc.onion", "/")
T2 == Url("https", "xyz.onion", "/page")
T0 == Url("", "", "abc.onion")          \* "abc.onion": no scheme, no netloc
Targets == {T1, T2, T0}

RECURSIVE SeqsUpTo(_, _)
SeqsUpTo(S, n) ==
    IF n = 0 THEN {<<>>}
    ELSE LET shorter == SeqsUpTo(S, n - 1)
         IN  shorter \cup {Append(q, x) : q \in shorter, x \in S}

EmptyBody == <<>>
Page1 == <<"<a href='http://abc.onion/page'>", "<a href='https://example.com'>",
           "<a href='http://abc.onion/page'>", "<img>", "<img src='img.png'>",
           "mail admin@abc.onion">>
Page2 == <<"<html></html>">>

Headers1 == [Server |-> "Apache", Date |-> "today"]
Headers2 == ("X-Powered-By" :> "PHP") @@ ("server" :> "nginx")

FetchFailures == {[ok |-> FALSE, reason |-> <<"boom">>], [ok |-> FALSE, reason |-> <<"timed out">>]}
FetchSuccesses ==
    {[ok |-> TRUE, text |-> EmptyBody, headers |-> Headers1],
     [ok |-> TRUE, text |-> Page1, headers |-> Headers1],
     [ok |-> TRUE, text |-> Page2, headers |-> Headers2]}

\* requests raises MissingSchema, a RequestException, for a URL with no host.
FetchOutcomes(url) == IF url.host = "" THEN FetchFailures ELSE FetchFailures \cup FetchSuccesses

PathOutcomes == {Response(200), Response(404), Response(500), RequestError}

Desc1 == [nickname |-> "x", published |-> [type |-> "datetime", v |-> "now"],
          platform |-> "p", contact |-> "c"]
Desc2 == [nickname |-> "y", published |-> [type |-> "datetime", v |-> "then"],
          platform |-> "q", contact |-> "d"]

DirOutcomes ==
    {[kind |-> "list", descs |-> <<Desc1, Desc2>>],
     [kind |-> "list", descs |-> <<>>],
     [kind |-> "raise", exc |-> "DescriptorUnavailable", message |-> "unavailable"],
     [kind |-> "raise", exc |-> "OSError", message |-> "network unreachable"]}

Cert1 == [subject |-> "CN=abc", issuer |-> "CN=abc", notBefore |-> "Jan 1", notAfter |-> "Dec 31"]

Refused == [kind |-> "oserror", message |-> "Connection refused"]
TimedOut == [kind |-> "oserror", message |-> "timed out"]
Data(d) == [kind |-> "data", data |-> d]

IntVal(n) == [type |-> "int", v |-> n]
BytesVal(b) == [type |-> "bytes", v |-> b]

\* What the network does during one scan, apart from the page fetch and the
\* directory query.
Scenarios ==
    {[paths |-> [i \in 1..6 |-> Response(404)],
      images |-> <<[kind |-> "exif", exif |-> (1 :> IntVal(2))],
                  [kind |-> "exif", exif |-> (1 :> IntVal(2))]>>,
      cert |-> [kind |-> "cert", cert |-> Cert1],
      banners |-> [l \in Labels |-> Refused]],
     [paths |-> [i \in 1..6 |-> IF i = 4 THEN Response(200)
                                ELSE IF i = 3 THEN RequestError ELSE Response(404)],
      images |-> <<[kind |-> "request_error"], [kind |-> "request_error"]>>,
      cert |-> [kind |-> "error", message |-> "handshake failure"],
      banners |-> [l \in Labels |-> IF l = "ssh" THEN Data(<<"S", "S", "H">>) ELSE TimedOut]],
     [paths |-> [i \in 1..6 |-> RequestError],
      images |-> <<[kind |-> "decode_error"], [kind |-> "decode_error"]>>,
      cert |-> [kind |-> "context_error"],
      banners |-> [l \in Labels |-> Refused]],
     [paths |-> [i \in 1..6 |-> IF i \in {1, 6} THEN Response(200) ELSE Response(500)],
      images |-> <<[kind |-> "exif", exif |-> <<>>],
                  [kind |-> "exif", exif |-> (1 :> BytesVal(<<"a", "b", "c">>))]>>,
      cert |-> [kind |-> "cert", cert |-> Cert1],
      banners |-> [l \in Labels |->
                      IF l = "ssh" THEN Data(<<" ", "S", "\\xff", "H", "\n">>)
                      ELSE IF l = "ftp" THEN Refused ELSE TimedOut]]}

FirstScenario == CHOOSE sc \in Scenarios : sc.cert.kind = "error"
FirstDir == CHOOSE o \in DirOutcomes : o.kind = "list" /\ Len(o.descs) = 0

World(fetch, sc, dir) ==
    [fetch |-> fetch, paths |-> sc.paths, images |-> sc.images, cert |-> sc.cert,
     banners |-> sc.banners, dir |-> dir]

\* The worlds one scan_service(url) call can meet; what the call never looks
\* at (everything after a page without text, the directory's answer when the
\* lookup is already cached) is held fixed.
Worlds(url, cache) ==
    LET looked(f) == f.ok /\ f.text # EmptyBody
        rest(f) == IF looked(f) THEN Scenarios ELSE {FirstScenario}
        dirs(f) == IF looked(f) /\ ~cache.hit THEN DirOutcomes ELSE {FirstDir}
    IN  UNION {{World(f, sc, d) : sc \in rest(f), d \in dirs(f)} : f \in FetchOutcomes(url)}

----------------------------------------------------------------------------
(* States in which a part of the program is not in use *)

IdleCfg ==
    /\ PROXY_HOST = None /\ PROXY_PORT = None
    /\ envHost = None /\ envPort = None
    /\ cfgResult = [done |-> FALSE]

IdleSess ==
    /\ TOR_SESSION = NoSession /\ sessionSeq = 0
    /\ sessionLog = EmptySessionLog /\ conns = {}

IdleDir == descCache = NoEntry /\ dirLog = EmptyDirLog

IdleMain ==
    /\ urls = <<>> /\ idx = 0 /\ all_results = <<>>
    /\ pc = "done" /\ scanLog = <<>>

IdleCf == cfOutcomes = <<>> /\ cfResult = [done |-> FALSE]

IdleThr == tpc = <<>> /\ tres = <<>>

----------------------------------------------------------------------------
(* Spec: the scan loop of __main__ (lines 304-320) *)

\* Lines 305-308: the command line may set the override before the loop.
Init ==
    /\ \E o \in {<<None, None>>, <<<<"c">>, <<"1", "0">>>>} :
           PROXY_HOST = o[1] /\ PROXY_PORT = o[2]
    /\ envHost = None /\ envPort = None /\ cfgResult = [done |-> FALSE]
    /\ IdleSess /\ IdleDir /\ IdleCf /\ IdleThr
    /\ urls \in SeqsUpTo(Targets, MaxTargets)
    /\ idx = 0
    /\ all_results = <<>>
    /\ pc = IF Len(urls) = 0 THEN "done" ELSE "scan"
    /\ scanLog = <<>>

\* One turn of the loop: all_results[target_url] = scan_service(target_url).
\* An exception leaving scan_service ends the program.
ScanNext ==
    /\ pc = "scan"
    /\ \E w \in Worlds(urls[idx + 1], descCache) :
         LET url == urls[idx + 1]
             r == scan_service(SS, DS, url, w)
         IN  /\ SetSS(r.ss)
             /\ SetDS(r.ds)
             /\ scanLog' = Append(scanLog, [url |-> url, world |-> w, raised |-> r.raised,
                                             result |-> r.result, probes |-> r.probes,
                                             outputs |-> r.outputs])
             /\ IF r.raised
                THEN /\ pc' = "raised"
                     /\ UNCHANGED <<idx, all_results>>
                ELSE /\ all_results' = Update(all_results, (url :> r.result))
                     /\ idx' = idx + 1
                     /\ pc' = IF idx + 1 = Len(urls) THEN "done" ELSE "scan"
    /\ UNCHANGED <<cfgVars, urls, cfVars, thrVars>>

Next == ScanNext

Spec == Init /\ [][Next]_vars


----------------------------------------------------------------------------
(* SpecConfig: _get_proxy_config() called alone, for every configuration *)

HostChars == {"h", "e"}
PortChars == {"1", "a"}

OptStrings(A) == {None} \cup StringsUpTo(A, MaxStrLen)

InitConfig ==
    /\ PROXY_HOST \in OptStrings(HostChars)
    /\ PROXY_PORT \in OptStrings(PortChars)
    /\ envHost \in OptStrings(HostChars)
    /\ envPort \in OptStrings(PortChars)
    /\ cfgResult = [done |-> FALSE]
    /\ IdleSess /\ IdleDir /\ IdleMain /\ IdleCf /\ IdleThr

ResolveConfig ==
    /\ ~cfgResult.done
    /\ cfgResult' = [done |-> TRUE, host |-> _get_proxy_config[1], port |-> _get_proxy_config[2]]
    /\ UNCHANGED <<PROXY_HOST, PROXY_PORT, envHost, envPort, sessVars, dirVars, mainVars,
                   cfVars, thrVars>>

NextConfig == ResolveConfig

SpecConfig == InitConfig /\ [][NextConfig]_vars

----------------------------------------------------------------------------
(* SpecSession: the functions that use the proxy, called one at a time in   *)
(* any order while the override and the environment change                 *)

InitSession ==
    /\ IdleCfg /\ IdleSess /\ IdleDir /\ IdleMain /\ IdleCf /\ IdleThr

\* main.PROXY_HOST / main.PROXY_PORT assigned (lines 305-308, or a test).
SetOverride ==
    /\ \E h \in {None, <<"c">>}, p \in {None, <<"1", "0">>} :
           /\ <<h, p>> # <<PROXY_HOST, PROXY_PORT>>
           /\ PROXY_HOST' = h
           /\ PROXY_PORT' = p
    /\ UNCHANGED <<envHost, envPort, cfgResult, sessVars, dirVars, mainVars, cfVars, thrVars>>

\* TOR_PROXY_HOST / TOR_PROXY_PORT set or unset in os.environ.
SetEnv ==
    /\ \E h \in {None, <<"e">>}, p \in {None, <<"2", "0">>, <<"x">>} :
           /\ <<h, p>> # <<envHost, envPort>>
           /\ envHost' = h
           /\ envPort' = p
    /\ UNCHANGED <<PROXY_HOST, PROXY_PORT, cfgResult, sessVars, dirVars, mainVars, cfVars,
                   thrVars>>

\* main._TOR_SESSION = None, as the tests do.
ResetSession ==
    /\ TOR_SESSION # NoSession
    /\ sessionSeq < MaxSessions
    /\ TOR_SESSION' = NoSession
    /\ sessionLog' = EmptySessionLog
    /\ conns' = {}
    /\ UNCHANGED <<cfgVars, sessionSeq, dirVars, mainVars, cfVars, thrVars>>

GetTorSession ==
    /\ SetSS(CallGetTorSession(SS))
    /\ UNCHANGED <<cfgVars, dirVars, mainVars, cfVars, thrVars>>

FetchHtmlViaTor ==
    /\ \E url \in Targets, o \in FetchFailures \cup FetchSuccesses :
           /\ o \in FetchOutcomes(url)
           /\ SetSS(fetch_html_via_tor(SS, url, o).ss)
    /\ UNCHANGED <<cfgVars, dirVars, mainVars, cfVars, thrVars>>

CheckCommonFiles ==
    /\ \E url \in Targets, sc \in Scenarios : SetSS(check_common_files(SS, url, sc.paths).ss)
    /\ UNCHANGED <<cfgVars, dirVars, mainVars, cfVars, thrVars>>

ExtractExifDataFromImages ==
    /\ \E url \in Targets, html \in {Page1, Page2}, sc \in Scenarios :
           SetSS(extract_exif_data_from_images(SS, html, url, sc.images).ss)
    /\ UNCHANGED <<cfgVars, dirVars, mainVars, cfVars, thrVars>>

ExtractCertInfo ==
    /\ \E url \in Targets \ {T0}, sc \in Scenarios :
           SetSS(extract_cert_info(SS, hostname(url), sc.cert).ss)
    /\ UNCHANGED <<cfgVars, dirVars, mainVars, cfVars, thrVars>>

ScanProtocols ==
    /\ \E url \in Targets \ {T0}, sc \in Scenarios :
           SetSS(scan_protocols(SS, hostname(url), sc.banners).ss)
    /\ UNCHANGED <<cfgVars, dirVars, mainVars, cfVars, thrVars>>

NextSession ==
    \/ SetOverride
    \/ SetEnv
    \/ ResetSession
    \/ GetTorSession
    \/ FetchHtmlViaTor
    \/ CheckCommonFiles
    \/ ExtractExifDataFromImages
    \/ ExtractCertInfo
    \/ ScanProtocols

SpecSession == InitSession /\ [][NextSession]_vars

----------------------------------------------------------------------------
(* SpecCache: fetch_tor_descriptor() and cache_clear() called one at a time *)

DirOutcomesAll ==
    DirOutcomes \cup
    {[kind |-> "list", descs |-> <<Desc2>>],
     [kind |-> "raise", exc |-> "IndexError", message |-> "index"],
     [kind |-> "raise", exc |-> "ValueError", message |-> "bad descriptor"]}

InitCache ==
    /\ IdleCfg /\ IdleSess /\ IdleDir /\ IdleMain /\ IdleCf /\ IdleThr

FetchTorDescriptor ==
    /\ dirLog.calls < MaxCalls
    /\ \E o \in DirOutcomesAll : SetDS(CallFetchTorDescriptor(DS, o).ds)
    /\ UNCHANGED <<cfgVars, sessVars, mainVars, cfVars, thrVars>>

\* fetch_tor_descriptor.cache_clear()
CacheClear ==
    /\ dirLog.calls > 0
    /\ descCache' = NoEntry
    /\ dirLog' = EmptyDirLog
    /\ UNCHANGED <<cfgVars, sessVars, mainVars, cfVars, thrVars>>

NextCache == FetchTorDescriptor \/ CacheClear

SpecCache == InitCache /\ [][NextCache]_vars

----------------------------------------------------------------------------
(* SpecConc: fetch_tor_descriptor() called by several threads at once, the  *)
(* cache empty. lru_cache looks the key up, runs the body without holding  *)
(* any lock across it, then stores the value.                              *)

Callers == 1..NumCallers

InitConc ==
    /\ IdleCfg /\ IdleSess /\ IdleDir /\ IdleMain /\ IdleCf
    /\ tpc = [t \in Callers |-> "start"]
    /\ tres = [t \in Callers |-> [raised |-> FALSE, pending |-> TRUE]]

Lookup(t) ==
    /\ tpc[t] = "start"
    /\ IF descCache.hit
       THEN /\ tres' = [tres EXCEPT ![t] = Returned(descCache.value)]
            /\ tpc' = [tpc EXCEPT ![t] = "done"]
            /\ dirLog' = [dirLog EXCEPT !.calls = @ + 1,
                                        !.results = Append(@, Returned(descCache.value))]
       ELSE /\ tpc' = [tpc EXCEPT ![t] = "miss"]
            /\ dirLog' = [dirLog EXCEPT !.calls = @ + 1]
            /\ UNCHANGED tres
    /\ UNCHANGED <<cfgVars, sessVars, descCache, mainVars, cfVars>>

Query(t) ==
    /\ tpc[t] = "miss"
    /\ \E o \in DirOutcomes :
           tres' = [tres EXCEPT ![t] = fetch_tor_descriptor_body(o)]
    /\ tpc' = [tpc EXCEPT ![t] = "computed"]
    /\ dirLog' = [dirLog EXCEPT !.queries = @ + 1]
    /\ UNCHANGED <<cfgVars, sessVars, descCache, mainVars, cfVars>>

Finish(t) ==
    /\ tpc[t] = "computed"
    /\ descCache' = Store(descCache, tres[t])
    /\ tpc' = [tpc EXCEPT ![t] = "done"]
    /\ dirLog' = [dirLog EXCEPT !.results = Append(@, tres[t])]
    /\ UNCHANGED <<cfgVars, sessVars, mainVars, cfVars, tres>>

NextConc == \E t \in Callers : Lookup(t) \/ Query(t) \/ Finish(t)

SpecConc == InitConc /\ [][NextConc]_vars

----------------------------------------------------------------------------
(* SpecCommon: check_common_files() called alone, for every assignment of   *)
(* an outcome to each of the six paths                                      *)

InitCommon ==
    /\ IdleCfg /\ IdleSess /\ IdleDir /\ IdleMain /\ IdleThr
    /\ cfOutcomes \in [1..Len(Paths) -> PathOutcomes]
    /\ cfResult = [done |-> FALSE]

CheckCommonFilesAlone ==
    /\ ~cfResult.done
    /\ \E url \in {T1, T2} :
         LET r == check_common_files(SS, url, cfOutcomes)
         IN  /\ SetSS(r.ss)
             /\ cfResult' = [done |-> TRUE, url |-> url, findings |-> r.findings,
                             requested |-> r.requested]
    /\ UNCHANGED <<cfgVars, dirVars, mainVars, cfOutcomes, thrVars>>

NextCommon == CheckCommonFilesAlone

SpecCommon == InitCommon /\ [][NextCommon]_vars

----------------------------------------------------------------------------
(* The claims *)

\* C1: between two resets every get_tor_session() call returns the same
\* session, requests.Session() runs once, on the first call, and the session's
\* proxies are socks5h://host:port for the pair resolved at that first call.
C1_SessionSingleton ==
    sessionLog.called =>
        /\ sessionLog.constructed = 1
        /\ sessionLog.returned = {TOR_SESSION.id}
        /\ TOR_SESSION.proxies = ProxiesOf(sessionLog.first)
        /\ TOR_SESSION.proxies.http =
               [scheme |-> "socks5h", host |-> sessionLog.first[1], port |-> sessionLog.first[2]]

\* Several calls were made, and the configuration has changed since the first.
C1_Witness ==
    /\ sessionLog.called
    /\ sessionSeq = 2
    /\ conns # {}
    /\ _get_proxy_config # sessionLog.first
    /\ TOR_SESSION.proxies.https.host = <<"e">>

\* C2: between two cache_clear() the directory is queried exactly once,
\* whatever the query's outcome, and every call returns what the first
\* returned.
C2_QueriedOnce ==
    dirLog.calls > 0 =>
        /\ dirLog.queries = 1
        /\ \A i \in 1..Len(dirLog.results) : dirLog.results[i] = dirLog.results[1]

\* C5: check_common_files requests the six paths in order whatever each
\* request does, and returns exactly the paths that answered 200, in order.
C5_AllPathsChecked ==
    cfResult.done =>
        /\ cfResult.requested = [i \in 1..6 |-> urljoin(cfResult.url, Paths[i])]
        /\ cfResult.findings =
               SelectSeq([i \in 1..6 |-> [path |-> Paths[i], status |-> 200]],
                         LAMBDA e : \E i \in 1..6 : /\ Paths[i] = e.path
                                                    /\ cfOutcomes[i] = Response(200))

C5_Witness ==
    /\ cfResult.done
    /\ cfOutcomes[1] = RequestError
    /\ cfOutcomes[2] = Response(500)
    /\ cfOutcomes[4] = Response(200)
    /\ cfOutcomes[5] = RequestError
    /\ cfOutcomes[6] = Response(200)
    /\ Len(cfResult.findings) = 2
    /\ Len(cfResult.requested) = 6

\* C7: once the session exists, every connection of every probe goes
\* through the proxy the session was constructed with.
C7_SameProxy ==
    TOR_SESSION # NoSession =>
        \A c \in conns :
            c.after => /\ c.host = TOR_SESSION.proxies.http.host
                       /\ c.port = PyInt(TOR_SESSION.proxies.http.port)

\* The reference resolution of C8; Set says when a value counts as set.
NumericString(s) == s # <<>> /\ \A i \in 1..Len(s) : s[i] \in DigitChars

Reference(Set(_)) ==
    LET host == IF Set(PROXY_HOST) THEN PROXY_HOST
                ELSE IF Set(envHost) THEN envHost ELSE DefaultHost
        selected == IF Set(PROXY_PORT) THEN PROXY_PORT
                    ELSE IF Set(envPort) THEN envPort ELSE DefaultPort
    IN  [done |-> TRUE, host |-> host,
         port |-> IF NumericString(selected) THEN selected ELSE DefaultPort]

IsString(x) == x # None
IsNonEmptyString(x) == x # None /\ x # <<>>

\* C8 as stated: a value is set when it is a string, the empty one included.
C8_AsStated == cfgResult.done => cfgResult = Reference(IsString)

\* C8: _get_proxy_config is the reference resolution (override, else
\* environment, else default; a non-numeric selected port gives "9050"),
\* where a value is set when it is a non-empty string.
C8_ReferenceResolution == cfgResult.done => cfgResult = Reference(IsNonEmptyString)

C8_Witness ==
    /\ cfgResult.done
    /\ PROXY_HOST = <<>> /\ envHost = <<"e">>
    /\ PROXY_PORT = <<"a">> /\ envPort = <<"1">>
    /\ cfgResult.host = <<"e">>
    /\ cfgResult.port = DefaultPort

\* C10: concurrent callers on an empty cache issue at most one directory
\* query, and all receive its result.
C10_SingleFlight ==
    /\ dirLog.queries <= 1
    /\ (\A t \in Callers : tpc[t] = "done") => \A t, u \in Callers : tres[t] = tres[u]

ReportKeys ==
    {"url", "errors", "metadata", "linked_onions", "cert_info", "exposed_files",
     "bitcoin_addresses", "pgp_keys", "emails_and_ids", "exif_data", "html_sha1",
     "tor_descriptor"} \cup {InfoKey(l) : l \in Labels}

Scans == {scanLog[i] : i \in 1..Len(scanLog)}

\* C3: when the page fetch fails with reason r, the report's errors are
\* exactly [r], its url is the target, and every other field has its empty
\* default.
C3_FetchFailureReport ==
    \A c \in Scans :
        ~c.world.fetch.ok =>
            /\ ~c.raised
            /\ c.result.errors = <<PyStr(c.world.fetch.reason)>>
            /\ c.result.url = c.url
            /\ \A k \in {"metadata", "cert_info", "emails_and_ids", "tor_descriptor",
                          "linked_onions", "exposed_files", "bitcoin_addresses",
                          "pgp_keys", "exif_data", "html_sha1"} : c.result[k] = <<>>
            /\ DOMAIN c.result = DOMAIN DefaultResult(c.url)

C3_Witness ==
    \E c \in Scans :
        /\ c.world.fetch = [ok |-> FALSE, reason |-> <<"boom">>]
        /\ c.result.errors = <<PyStr(<<"boom">>)>>
        /\ all_results[c.url] = c.result

\* C4: no exception escapes scan_service, and the loop ends with a report
\* for every target.
C4_NoExceptionEscapes ==
    /\ pc # "raised"
    /\ pc = "done" => \A i \in 1..Len(urls) : urls[i] \in DOMAIN all_results

\* C6: every report returned by scan_service has the same keys: the twelve
\* fixed fields and one {label}_info for each of the eight protocols.
C6_StableKeys == \A c \in Scans : ~c.raised => DOMAIN c.result = ReportKeys

\* C9: when the page fetch succeeds, the report's url is the target, its
\* metadata is the metadata of the fetched headers, and exposed_files,
\* cert_info, tor_descriptor and each {label}_info are what the probes returned.
C9_PureMerge ==
    \A c \in Scans :
        c.world.fetch.ok /\ ~c.raised =>
            /\ c.result.url = c.url
            /\ c.result.metadata = extract_metadata(c.world.fetch.headers)
            /\ "check_common_files" \in DOMAIN c.outputs =>
                   c.result.exposed_files = c.outputs.check_common_files
            /\ "fetch_tor_descriptor" \in DOMAIN c.outputs =>
                   c.result.tor_descriptor = c.outputs.fetch_tor_descriptor
            /\ "extract_cert_info" \in DOMAIN c.outputs =>
                   c.result.cert_info = c.outputs.extract_cert_info
            /\ "scan_protocols" \in DOMAIN c.outputs =>
                   \A k \in DOMAIN c.outputs.scan_protocols :
                       c.result[k] = c.outputs.scan_protocols[k]

\* The scan_service call that ran last, when there is one.
LastScan == scanLog[Len(scanLog)]

\* C11: in every scan_service call the page fetch is the first probe invoked;
\* when the fetch failed, no other probe was invoked for that target and
\* every connection the call made is the page fetch's.
C11_FetchFirstThenShortCircuit ==
    /\ \A c \in Scans :
           /\ c.probes[1] = "fetch_html_via_tor"
           /\ \A i \in 2..Len(c.probes) : c.probes[i] # "fetch_html_via_tor"
           /\ ~c.world.fetch.ok => c.probes = <<"fetch_html_via_tor">>
    /\ (Len(scanLog) > 0 /\ ~LastScan.world.fetch.ok) =>
           \A k \in conns : k.probe = "fetch_html_via_tor"

\* C11's case: after a scan that ran all six probes, the next target's page
\* fetch fails having reached the network, and that is its only connection.
C11_Witness ==
    /\ Len(scanLog) = 2
    /\ Len(scanLog[1].probes) = 6
    /\ ~scanLog[2].world.fetch.ok
    /\ scanLog[2].probes = <<"fetch_html_via_tor">>
    /\ conns # {}
    /\ \A k \in conns : k.probe = "fetch_html_via_tor"

\* C12: every element of a report's errors is a string, and scan_service
\* returns after the page fetch alone only when the fetch reported a failure:
\* a successful fetch, empty body included, leaves no header map in errors
\* and is not recorded as an error.
C12_ErrorsAreStrings ==
    \A c \in Scans :
        ~c.raised =>
            /\ \A i \in 1..Len(c.result.errors) : c.result.errors[i].type = "str"
            /\ c.probes = <<"fetch_html_via_tor">> => ~c.world.fetch.ok
            /\ c.world.fetch.ok =>
                   \A i \in 1..Len(c.result.errors) :
                       c.result.errors[i] # PyDict(c.world.fetch.headers)

====
